---- MODULE Spec2Model ----
\* Model of the final variant of the polymorphic clone facility (namespace v5):
\* the reference form and the pointer form of object::clone, the mixin
\* object::cloneable, and the classes Figure and Square.
\*
\* The templates are generic over the class they are instantiated with, so the
\* class table holds the repository's classes (cloneable<Figure>, Figure,
\* Square) and two user classes derived from Square that the templates accept
\* as arguments: Cube, which overrides clone() the way Square does, and Tile,
\* which declares nothing of its own.
\*
\* The dispatchers of the earlier variants (the static helper Figure::clone,
\* object::clone of v2, v3 and v4) are operators on the same argument forms,
\* compared with the final variant call by call.
EXTENDS Integers, FiniteSets, Sequences, TLC

\* ------------------------------------------------------------------ bounds
MaxObjs    == 2      \* addresses of the modelled memory
MaxHandles == 2      \* std::unique_ptr variables in scope
MaxSide    == 1      \* sides are drawn from 0..MaxSide

Addr    == 1..MaxObjs
Slots   == 1..MaxHandles
Sides   == 0..MaxSide
None    == "none"
NullPtr == 0        \* the null pointer; no object lives at it

\* ------------------------------------------------------------ class table
cloneable == "cloneable<Figure>"
Figure    == "Figure"
Square    == "Square"
Cube      == "Cube"
Tile      == "Tile"

Classes == {cloneable, Figure, Square, Cube, Tile}

\* struct Figure : object::cloneable<Figure>; struct Square : Figure;
\* struct Cube : Square; struct Tile : Square
Parent(c) ==
    CASE c = Figure -> cloneable
      [] c = Square -> Figure
      [] c = Cube   -> Square
      [] c = Tile   -> Square
      [] OTHER      -> None

RECURSIVE Derives(_, _)
\* D is B, or a base of D derives from B
Derives(D, B) ==
    IF D = None THEN FALSE
    ELSE IF B = D THEN TRUE
    ELSE Derives(Parent(D), B)

\* std::is_base_of<B, D>::value
is_base_of(B, D) == Derives(D, B)

\* the alias a class declares itself: cloneable<T> has `using base_type = T`
OwnBaseType(c) == IF c = cloneable THEN Figure ELSE None

RECURSIVE base_type(_)
\* typename T::base_type: member lookup in T, then in its bases
base_type(T) ==
    IF T = None THEN None
    ELSE IF OwnBaseType(T) # None THEN OwnBaseType(T)
    ELSE base_type(Parent(T))

\* what a class declares for clone(): "pure", "body" or nothing
DeclaresClone(c) ==
    CASE c = cloneable -> "pure"
      [] c = Square    -> "body"
      [] c = Cube      -> "body"
      [] OTHER         -> None

\* what a class declares for area()
DeclaresArea(c) ==
    CASE c = Figure -> "pure"
      [] c = Square -> "body"
      [] OTHER      -> None

RECURSIVE FinalOverrider(_)
\* the class whose clone() a virtual call on an object of class c runs
FinalOverrider(c) ==
    IF c = None THEN None
    ELSE IF DeclaresClone(c) # None THEN c
    ELSE FinalOverrider(Parent(c))

RECURSIVE AreaOverrider(_)
AreaOverrider(c) ==
    IF c = None THEN None
    ELSE IF DeclaresArea(c) # None THEN c
    ELSE AreaOverrider(Parent(c))

\* a class with a pure final overrider is abstract and has no objects
IsAbstract(c) ==
    \/ FinalOverrider(c) # None /\ DeclaresClone(FinalOverrider(c)) = "pure"
    \/ AreaOverrider(c) # None /\ DeclaresArea(AreaOverrider(c)) = "pure"

Concrete == {c \in Classes : ~IsAbstract(c)}

\* ----------------------------------------------------------- member access
\* Where a call of clone() is written: a test body or any other code outside
\* the hierarchy, the dispatcher object::clone(const X&), or a member function
\* of a class of the hierarchy (named by the class).
Outside    == "outside"
Dispatcher == "object::clone"
Contexts   == {Outside, Dispatcher} \cup Classes

\* a hierarchy where Square declares clone() in its public section
CloneAccess_public(c) ==
    IF DeclaresClone(c) = None THEN None
    ELSE IF c = Square THEN "public" ELSE "protected"

\* the access of the clone() a class declares: `protected:` precedes it in
\* cloneable<T> and in Square
CloneAccess(c) == IF DeclaresClone(c) = None THEN None ELSE "protected"

\* template <typename X> friend std::unique_ptr<X> object::clone(const X&);
Friends(c) == IF c = cloneable THEN {Dispatcher} ELSE {}

\* name lookup of `clone` in class N: the declaration in N or in the nearest
\* base that has one
lookup_clone(N) == FinalOverrider(N)

\* whether `e.clone()` compiles in context ctx for an expression e of class N:
\* a public member is accessible everywhere; a protected member of D in the
\* friends of D, and in the members of a class M derived from D when N is M
\* or derived from M.
accessible(ctx, N) ==
    LET D == lookup_clone(N)
    IN /\ D # None
       /\ \/ CloneAccess(D) = "public"
          \/ /\ CloneAccess(D) = "protected"
             /\ \/ ctx \in Friends(D)
                \/ ctx \in Classes /\ Derives(ctx, D) /\ Derives(N, ctx)

\* ---------------------------------------------------------------- objects
\* An object: its dynamic type, the member `double a` of Square, and whether
\* it was allocated by `new` (heap) or is a named or temporary object.
NoObj == [type |-> None, a |-> 0, heap |-> FALSE]

\* Square(double a) : a{a}
Square_ctor(cls, a) == [type |-> cls, a |-> a, heap |-> FALSE]

\* double area() const { return a * a; }
area(obj) == obj.a * obj.a

Min(S) == CHOOSE x \in S : \A y \in S : x <= y

\* storage for a new object: an address no live object occupies; addresses are
\* interchangeable, so the lowest free one stands for any of them
storage(occupied) ==
    IF Addr \ occupied = {} THEN {} ELSE {Min(Addr \ occupied)}

\* the exception operator new throws when it cannot allocate
bad_alloc == "std::bad_alloc"

\* `new C(...)`: either storage for the object, or std::bad_alloc; whether the
\* allocator has memory left is not in the program's hands, so the exception
\* is possible at every allocation
operator_new(occupied) ==
    {[at |-> c, exc |-> None] : c \in storage(occupied)}
        \cup {[at |-> NullPtr, exc |-> bad_alloc]}

\* C(*this): the implicit copy constructor of C copies the members of C from
\* *this; the new object's dynamic type is C, whatever *this is.
copy_ctor(C, this) == [type |-> C, a |-> this.a, heap |-> TRUE]

\* a clone() that hands out the receiver instead of a copy of it
clone_override_alias(C, this, thisAt, occupied) ==
    {[at |-> thisAt, obj |-> this, exc |-> None]}

\* C* clone() const override { return new C(*this); }
\* the pointers it can return: where the new object is, and the object; or
\* std::bad_alloc leaving the function, with no object made
clone_override(C, this, thisAt, occupied) ==
    {[at |-> n.at, exc |-> n.exc,
      obj |-> IF n.exc = bad_alloc THEN NoObj ELSE copy_ctor(C, this)] :
        n \in operator_new(occupied)}

\* static_cast<const base_type&>(object).clone(): the virtual call runs the
\* final overrider of the object's dynamic type.
virtual_clone(this, thisAt, occupied) ==
    clone_override(FinalOverrider(this.type), this, thisAt, occupied)

\* --------------------------------------------------- template deduction
\* The type of an argument expression: class, const qualification; `ptr`
\* says the expression is a pointer to that type; cat is the value category.
ArgType(cls, cnst) == [cls |-> cls, const |-> cnst]

\* std::unique_ptr<T> for a class T
unique_ptr(T) == [cls |-> T, const |-> FALSE]

\* a handle typed by the marker: std::unique_ptr<typename T::base_type>
clone_ref_type_base(argT) == unique_ptr(base_type(argT.cls))

\* a handle that keeps the argument's qualifier: std::unique_ptr<const T>
clone_ref_type_cv(argT) == [cls |-> argT.cls, const |-> argT.const]

\* clone(const T& object): deducing T from an argument of type A strips the
\* top-level const, and the handle type is std::unique_ptr<T>.
clone_ref_type(argT) == unique_ptr(argT.cls)

\* the type of `*object` for a T* object: an lvalue of type T, const kept
deref_type(argT) == ArgType(argT.cls, argT.const)

\* clone(T* object) -> decltype(clone(*object))
clone_ptr_type(argT) == clone_ref_type(deref_type(argT))

\* overload resolution: both templates match a pointer argument exactly and
\* T* is the more specialised; a non-pointer only matches const T&.
Overload(isPtr) == IF isPtr THEN "ptr" ELSE "ref"

\* the dispatcher without its assertion, as in the variant before it was added
static_assert_off(T) == TRUE

\* static_assert(std::is_base_of<base_type, T>::value, ...)
static_assert_ok(T) == is_base_of(base_type(T), T)

\* the diagnostic of instantiating clone<T>: "ok" when it compiles
Instantiate(T) ==
    IF base_type(T) = None THEN "no base_type"
    ELSE IF ~static_assert_ok(T) THEN "static_assert"
    ELSE IF ~accessible(Dispatcher, base_type(T)) THEN "protected"
    ELSE "ok"

\* static_cast<T*>(ptr) for a pointer to an object of dynamic type dyn: when T
\* is dyn or a base of dyn the address is kept; otherwise the behaviour is
\* undefined, and a build either keeps the address as well or stops the
\* process at the cast
static_cast_ptr(T, dyn) == IF Derives(dyn, T) THEN {"ok"} ELSE {"ok", "trap"}

\* how a call of the dispatcher ends: "returned" with the handle's type and the
\* pointer it wraps, "threw" when std::bad_alloc propagates to the caller, or
\* "crashed" when the process was stopped
Threw(stype) ==
    [outcome |-> "threw", stype |-> stype, at |-> NullPtr, obj |-> NoObj]
Ended(c, stype, r) ==
    [outcome |-> IF c = "ok" THEN "returned" ELSE "crashed",
     stype |-> stype, at |-> r.at, obj |-> r.obj]

\* a dispatcher that types the handle by what the override returned
object_clone_dyn(argT, this, thisAt, occupied) ==
    {IF r.exc = bad_alloc THEN Threw(clone_ref_type(argT))
     ELSE Ended("ok", unique_ptr(r.obj.type), r) :
        r \in virtual_clone(this, thisAt, occupied)}

\* the body of clone(const T&) run on a live object: the exception of the
\* allocation passes through it; otherwise the pointer is narrowed by
\* static_cast<T*> and wrapped in std::unique_ptr<T>
object_clone(argT, this, thisAt, occupied) ==
    UNION {IF r.exc = bad_alloc THEN {Threw(clone_ref_type(argT))}
           ELSE {Ended(c, clone_ref_type(argT), r) :
                    c \in static_cast_ptr(argT.cls, r.obj.type)} :
              r \in virtual_clone(this, thisAt, occupied)}

\* a pointer form declared std::unique_ptr<T> clone(T* object)
object_clone_ptr_cv(argT, this, thisAt, occupied) ==
    {[r EXCEPT !.stype = [cls |-> argT.cls, const |-> argT.const]] :
        r \in object_clone(deref_type(argT), this, thisAt, occupied)}

\* the body of clone(T*) run on a non-null pointer to a live object:
\* return clone(*object), typed decltype(clone(*object))
object_clone_ptr(argT, this, thisAt, occupied) ==
    {[r EXCEPT !.stype = clone_ptr_type(argT)] :
        r \in object_clone(deref_type(argT), this, thisAt, occupied)}

\* ------------------------------------------------------- earlier variants
\* The dispatchers that came before the final one: the static helper
\* Figure::clone, object::clone(T&&) of v2 and of v3, and object::clone of v4.
\* Their hierarchy is Figure, Square and the classes derived from Square:
\* Figure is the root there and declares clone() and base_type itself.
Variants == {"Figure::clone", "v2", "v3", "v4"}
EarlierClasses == Classes \ {cloneable}

\* the class the clone() found in N returns a pointer to: Figure* from the
\* root's declaration, C* from the override of a class C
clone_return(N) ==
    IF lookup_clone(N) = cloneable THEN Figure ELSE lookup_clone(N)

\* what a variant makes of a call: whether it compiles, the handle's type and
\* the objects the handle can own
NotViable == [ok |-> FALSE, stype |-> ArgType(None, FALSE), objs |-> {}]
Compiles(stype, this) ==
    [ok |-> TRUE, stype |-> stype,
     objs |-> {r.obj : r \in {x \in virtual_clone(this, NullPtr, {}) :
                                    x.exc # bad_alloc}}]

\* std::decay<T>::type for T deduced from an argument of class type
decay(argT) == ArgType(argT.cls, FALSE)

\* an alias built on std::remove_reference, which keeps const
decay_type_remove_reference(argT, isPtr) == ArgType(argT.cls, argT.const)

\* details::decay_type<T> = remove_pointer<decay<T>>: decay leaves a pointer
\* argument as it is, and remove_pointer gives the pointee with its const
decay_type(argT, isPtr) ==
    IF isPtr THEN ArgType(argT.cls, argT.const) ELSE decay(argT)

\* static unique_ptr<decay<T>> Figure::clone(T& figure) and clone(T* figure):
\* T is deduced with the argument's const, so T& binds an lvalue and a const
\* temporary (as const C&) but not a non-const temporary;
\* unique_ptr<decay<T>>(figure.clone()) needs the pointer clone() returns to
\* convert to decay<T>*.
Figure_clone(argT, isPtr, cat, this) ==
    IF /\ argT.cls \in EarlierClasses
       /\ isPtr \/ cat = "lvalue" \/ argT.const
       /\ Derives(clone_return(argT.cls), argT.cls)
      THEN Compiles(unique_ptr(decay(argT).cls), this)
      ELSE NotViable

\* v2: unique_ptr_t<T> clone(T&& object), returning
\* unique_ptr_t<T>(details::ref(object).clone())
clone_v2(argT, isPtr, cat, this) ==
    IF /\ argT.cls \in EarlierClasses
       /\ Derives(clone_return(argT.cls), argT.cls)
      THEN Compiles(decay_type(argT, isPtr), this)
      ELSE NotViable

\* v3: details::ref<base_type>(object) binds base_type& or base_type*, which a
\* const argument does not convert to; the pointer is then narrowed by
\* static_cast to unique_ptr_t<T>::pointer
clone_v3(argT, isPtr, cat, this) ==
    IF /\ argT.cls \in EarlierClasses
       /\ ~argT.const
       /\ is_base_of(Figure, argT.cls)
      THEN Compiles(decay_type(argT, isPtr), this)
      ELSE NotViable

\* v4: the two templates of the final variant without the static_assert
clone_v4(argT, isPtr, cat, this) ==
    IF /\ argT.cls \in EarlierClasses
       /\ is_base_of(Figure, argT.cls)
      THEN Compiles(IF isPtr THEN clone_ptr_type(argT) ELSE clone_ref_type(argT),
                    this)
      ELSE NotViable

earlier_clone(v, argT, isPtr, cat, this) ==
    CASE v = "Figure::clone" -> Figure_clone(argT, isPtr, cat, this)
      [] v = "v2"            -> clone_v2(argT, isPtr, cat, this)
      [] v = "v3"            -> clone_v3(argT, isPtr, cat, this)
      [] v = "v4"            -> clone_v4(argT, isPtr, cat, this)

\* ------------------------------------------------------------------ state
VARIABLES
    mem,      \* Addr -> object living there, or NoObj
    hnd,      \* Slots -> the std::unique_ptr in that variable, or NoHandle
    origin,   \* Addr -> address of the live object a clone was copied from
    pc,       \* "run", or "crashed" after a null pointer was dereferenced
    last      \* the statement just executed, when it was a call of object::clone

vars == <<mem, hnd, origin, pc, last>>

\* an empty handle owns nothing, and nothing can be reached through it: empty
\* handle variables and variables not in scope are not told apart
NoHandle == [stype |-> ArgType(None, FALSE), ptr |-> NullPtr]
Handle(stype, p) == IF p = NullPtr THEN NoHandle ELSE [stype |-> stype, ptr |-> p]

NoCall == [outcome |-> "none", form |-> None, argT |-> ArgType(None, FALSE),
           cat |-> None, src |-> NullPtr, srcObj |-> NoObj,
           copy |-> NullPtr, copyObj |-> NoObj, fresh |-> TRUE,
           stype |-> ArgType(None, FALSE), diag |-> None]

Live == {p \in Addr : mem[p] # NoObj}
Free == Addr \ Live
Named == {p \in Live : ~mem[p].heap}

Init ==
    /\ mem = [p \in Addr |-> NoObj]
    /\ hnd = [i \in Slots |-> NoHandle]
    /\ origin = [p \in Addr |-> NullPtr]
    /\ pc = "run"
    /\ last = NoCall

\* The static types through which the object at p can be named: a named
\* object through its own type or, by static_cast, any base of it; an object
\* behind a handle through the handle's element type or any base of that.
Views(p) ==
    {c \in Classes :
        \/ p \in Named /\ is_base_of(c, mem[p].type)
        \/ \E i \in Slots : hnd[i].ptr = p /\ is_base_of(c, hnd[i].stype.cls)}

\* ---------------------------------------------------------------- helpers
\* a handle that drops the pointer it was given
owning_handle_leak(stype, ptr) == Handle(stype, NullPtr)

\* return std::unique_ptr<T>(static_cast<T*>(ptr)): the handle owns ptr
owning_handle(stype, ptr) == Handle(stype, ptr)

\* a temporary that is gone when the body reads it
temporary_destroyed(tmp) == NoObj

\* a temporary bound to const T& lives until the end of the full expression,
\* so the body of clone reads the object as it was constructed
temporary(tmp) == tmp

\* the state of a std::unique_ptr after it was moved from
moved_from(h) == Handle(h.stype, NullPtr)

\* reading through a pointer: the object there, or a trap at the null pointer
deref(p) == IF p = NullPtr THEN "trap" ELSE "object"

\* the object at p died: nothing is a copy of it any more, nor it of anything
Forget(p) == [q \in Addr |-> IF q = p \/ origin[q] = p THEN NullPtr ELSE origin[q]]

\* `auto h = ...` declares the next handle variable
FreeSlot == IF \A i \in Slots : hnd[i] # NoHandle THEN 0
            ELSE Min({i \in Slots : hnd[i] = NoHandle})

Request(form, argT, cat, p, obj) ==
    [NoCall EXCEPT !.form = form, !.argT = argT, !.cat = cat,
                   !.src = p, !.srcObj = obj, !.diag = Instantiate(argT.cls)]

\* ---------------------------------------------------------------- actions
\* auto square = Square{a};  the one named object of a test body
Construct(p, cls, a) ==
    /\ pc = "run"
    /\ p \in storage(Live)
    /\ Named = {}
    /\ cls \in Concrete
    /\ mem' = [mem EXCEPT ![p] = Square_ctor(cls, a)]
    /\ last' = NoCall
    /\ UNCHANGED <<hnd, origin, pc>>

\* square.a = x;  through the named object or through a handle whose element
\* type has the member
SetSide(p, x) ==
    /\ pc = "run"
    /\ p \in Live
    /\ x # mem[p].a
    /\ \/ p \in Named
       \/ \E i \in Slots : hnd[i].ptr = p /\ is_base_of(Square, hnd[i].stype.cls)
                           /\ ~hnd[i].stype.const
    /\ mem' = [mem EXCEPT ![p].a = x]
    /\ last' = NoCall
    /\ UNCHANGED <<hnd, origin, pc>>

\* the end of a call that stopped the process: its memory image is gone
Crash ==
    /\ pc' = "crashed"
    /\ mem' = [q \in Addr |-> NoObj]
    /\ hnd' = [i \in Slots |-> NoHandle]
    /\ origin' = [q \in Addr |-> NullPtr]

\* auto figure = object::clone(v);  or  object::clone(&v);  on a live object
\* viewed through the static type `view`; the instantiation compiles.  The
\* call returns a handle, or std::bad_alloc reaches the caller and nothing has
\* changed, or the process stops at an undefined cast.
CloneCall(p, view, cnst, isPtr, slot) ==
    /\ pc = "run"
    /\ p \in Live
    /\ view \in Views(p)
    /\ slot = FreeSlot
    /\ Instantiate(view) = "ok"
    /\ LET argT == ArgType(view, cnst)
           form == Overload(isPtr)
           rs   == IF form = "ptr"
                     THEN object_clone_ptr(argT, mem[p], p, Live)
                     ELSE object_clone(argT, mem[p], p, Live)
           req  == Request(form, argT, "lvalue", p, mem[p])
       IN \E r \in rs :
            CASE r.outcome = "returned" ->
                   /\ mem' = [mem EXCEPT ![r.at] = r.obj]
                   /\ hnd' = [hnd EXCEPT ![slot] = owning_handle(r.stype, r.at)]
                   /\ origin' = [origin EXCEPT ![r.at] = p]
                   /\ last' = [req EXCEPT
                                 !.outcome = "returned", !.copy = r.at,
                                 !.fresh = (r.at \notin Live),
                                 !.copyObj = r.obj, !.stype = r.stype]
                   /\ pc' = pc
              [] r.outcome = "threw" ->
                   /\ last' = [req EXCEPT !.outcome = "threw"]
                   /\ UNCHANGED <<mem, hnd, origin, pc>>
              [] r.outcome = "crashed" ->
                   /\ last' = [req EXCEPT !.outcome = "crashed",
                                          !.copyObj = r.obj]
                   /\ Crash

\* auto figure = object::clone(Square{a});  the temporary, of type C or
\* const C, lives at t until the end of the full expression, the copy is
\* allocated while it is alive.
CloneTemp(t, cls, a, cnst, slot) ==
    /\ pc = "run"
    /\ t \in storage(Live)
    /\ cls \in Concrete
    /\ slot = FreeSlot
    /\ Instantiate(cls) = "ok"
    /\ LET argT == ArgType(cls, cnst)
           tmp  == Square_ctor(cls, a)
           rs   == object_clone(argT, temporary(tmp), t, Live \cup {t})
           req  == Request("ref", argT, "prvalue", NullPtr, tmp)
       IN \E r \in rs :
            CASE r.outcome = "returned" ->
                   /\ mem' = [[mem EXCEPT ![r.at] = r.obj] EXCEPT ![t] = NoObj]
                   /\ hnd' = [hnd EXCEPT ![slot] = owning_handle(r.stype, r.at)]
                   /\ origin' = [origin EXCEPT ![r.at] = NullPtr]
                   /\ last' = [req EXCEPT
                                 !.outcome = "returned", !.copy = r.at,
                                 !.fresh = (r.at \notin Live \cup {t}),
                                 !.copyObj = r.obj, !.stype = r.stype]
                   /\ pc' = pc
              [] r.outcome = "threw" ->
                   /\ last' = [req EXCEPT !.outcome = "threw"]
                   /\ UNCHANGED <<mem, hnd, origin, pc>>
              [] r.outcome = "crashed" ->
                   /\ last' = [req EXCEPT !.outcome = "crashed",
                                          !.copyObj = r.obj]
                   /\ Crash

\* a call whose instantiation does not compile: nothing runs
CloneRejected(p, view, cnst, isPtr) ==
    /\ pc = "run"
    /\ p \in Live
    /\ view \in Views(p)
    /\ Instantiate(view) # "ok"
    /\ last' = [Request(Overload(isPtr), ArgType(view, cnst), "lvalue", p, mem[p])
                  EXCEPT !.outcome = "rejected"]
    /\ UNCHANGED <<mem, hnd, origin, pc>>

\* Figure* p = nullptr; object::clone(p);  compiles, and `*object` reads
\* through the null pointer: the process is killed before the body of the
\* reference form runs, and its memory image is gone.
CloneNull(view, cnst) ==
    /\ pc = "run"
    /\ view \in Classes
    /\ Instantiate(view) = "ok"
    /\ deref(NullPtr) = "trap"
    /\ Crash
    /\ last' = [Request(Overload(TRUE), ArgType(view, cnst), "lvalue", NullPtr, NoObj)
                  EXCEPT !.outcome = "crashed"]

\* auto raw = v.clone();  written outside the hierarchy on an expression of
\* class `view`: where the call compiles it returns the raw pointer the
\* override made, and no handle owns the copy.
DirectCall(p, view) ==
    /\ pc = "run"
    /\ p \in Live
    /\ view \in Views(p)
    /\ LET req == [NoCall EXCEPT !.form = "direct", !.cat = "lvalue",
                                 !.argT = ArgType(view, FALSE),
                                 !.src = p, !.srcObj = mem[p]]
       IN IF accessible(Outside, view)
            THEN \E r \in virtual_clone(mem[p], p, Live) :
                   IF r.exc = bad_alloc
                     THEN /\ last' = [req EXCEPT !.outcome = "threw",
                                                 !.diag = "ok"]
                          /\ UNCHANGED <<mem, origin>>
                     ELSE /\ mem' = [mem EXCEPT ![r.at] = r.obj]
                          /\ origin' = [origin EXCEPT ![r.at] = p]
                          /\ last' = [req EXCEPT
                                        !.outcome = "raw", !.diag = "ok",
                                        !.copy = r.at, !.copyObj = r.obj,
                                        !.fresh = (r.at \notin Live),
                                        !.stype = ArgType(lookup_clone(view), FALSE)]
            ELSE /\ last' = [req EXCEPT !.outcome = "rejected",
                                        !.diag = "protected"]
                 /\ UNCHANGED <<mem, origin>>
    /\ UNCHANGED <<hnd, pc>>

\* std::unique_ptr<B> g = std::move(f);  B the element type of f or a base
MoveHandle(i, j, tgt) ==
    /\ pc = "run"
    /\ hnd[i] # NoHandle
    /\ j = FreeSlot
    /\ is_base_of(tgt, hnd[i].stype.cls)
    /\ hnd' = [hnd EXCEPT ![j] = Handle(unique_ptr(tgt), hnd[i].ptr),
                          ![i] = moved_from(hnd[i])]
    /\ last' = NoCall
    /\ UNCHANGED <<mem, origin, pc>>

\* the handle goes out of scope: ~unique_ptr deletes what it owns through the
\* virtual destructor
ResetHandle(i) ==
    /\ pc = "run"
    /\ hnd[i] # NoHandle
    /\ mem' = [mem EXCEPT ![hnd[i].ptr] = NoObj]
    /\ origin' = Forget(hnd[i].ptr)
    /\ hnd' = [hnd EXCEPT ![i] = NoHandle]
    /\ last' = NoCall
    /\ pc' = pc

Next ==
    \/ \E p \in Addr, cls \in Classes, a \in Sides : Construct(p, cls, a)
    \/ \E p \in Addr, x \in Sides : SetSide(p, x)
    \/ \E p \in Addr, view \in Classes, cnst \in BOOLEAN, isPtr \in BOOLEAN,
          slot \in Slots : CloneCall(p, view, cnst, isPtr, slot)
    \/ \E t \in Addr, cls \in Classes, a \in Sides, cnst \in BOOLEAN,
          slot \in Slots : CloneTemp(t, cls, a, cnst, slot)
    \/ \E p \in Addr, view \in Classes, cnst \in BOOLEAN, isPtr \in BOOLEAN :
          CloneRejected(p, view, cnst, isPtr)
    \/ \E view \in Classes, cnst \in BOOLEAN : CloneNull(view, cnst)
    \/ \E p \in Addr, view \in Classes : DirectCall(p, view)
    \/ \E i \in Slots, j \in Slots, tgt \in Classes : MoveHandle(i, j, tgt)
    \/ \E i \in Slots : ResetHandle(i)

Spec == Init /\ [][Next]_vars

TypeOK ==
    /\ \A p \in Addr : mem[p].type \in Classes \cup {None} /\ mem[p].a \in Sides
    /\ \A i \in Slots : hnd[i].ptr \in Addr \cup {NullPtr}
    /\ pc \in {"run", "crashed"}

\* ================================================================= claims
Returned == last.outcome = "returned"

\* the handle the call just executed left in a variable
ResultHandles == {i \in Slots : hnd[i].ptr # NullPtr /\ hnd[i].ptr = last.copy}

\* C1: a call of object::clone on an object of static type T, T any class
\* below the root capability type, returns std::unique_ptr<T>: the handle's
\* element type is T itself, not const T and not T::base_type.
C1_StaticTypePreserved ==
    (Returned /\ last.argT.cls # cloneable) =>
        /\ last.stype = [cls |-> last.argT.cls, const |-> FALSE]
        /\ \A i \in ResultHandles : hnd[i].stype = last.stype

\* a Cube, three levels below the root, was cloned by value and by pointer
C1_Witness ==
    /\ Returned
    /\ last.argT.cls = Cube
    /\ last.srcObj.type = Cube
    /\ last.stype.cls = Cube
    /\ ResultHandles # {}

\* C2: when the object is passed through a reference or pointer whose static
\* type A is a proper base of the object's dynamic type, the returned handle is
\* std::unique_ptr<A>, whatever the dynamic type of the object and of the copy.
C2_BaseViewGivesBaseHandle ==
    (Returned /\ last.argT.cls # last.srcObj.type
              /\ Derives(last.srcObj.type, last.argT.cls)) =>
        /\ last.stype.cls = last.argT.cls
        /\ last.stype.cls # last.srcObj.type
        /\ \A i \in ResultHandles : hnd[i].stype.cls = last.argT.cls

\* a Square was cloned through a Figure*: the handle is unique_ptr<Figure>
C2_Witness ==
    /\ Returned
    /\ last.form = "ptr"
    /\ last.argT.cls = Figure
    /\ last.srcObj.type = Square
    /\ last.copyObj.type = Square
    /\ last.stype.cls = Figure

\* C3 (as claimed): the copy has the dynamic type of the source and equal
\* state, so its area equals the source's area and the square of the side,
\* also when the source is passed through a base-typed pointer or reference.
C3_CopyEqualsSource ==
    Returned =>
        /\ last.copyObj.type = last.srcObj.type
        /\ last.copyObj.a = last.srcObj.a
        /\ area(last.copyObj) = area(last.srcObj)
        /\ area(last.copyObj) = last.srcObj.a * last.srcObj.a

\* C4: the copy is a distinct allocation from its source: no step that changes
\* one of them changes the other, for as long as both live.
C4_Independent ==
    [][\A c \in Addr :
         /\ origin'[c] # NullPtr => origin'[c] # c
         /\ (origin[c] # NullPtr /\ origin'[c] = origin[c]) =>
              /\ mem'[c] # mem[c] => mem'[origin[c]] = mem[origin[c]]
              /\ mem'[origin[c]] # mem[origin[c]] => mem'[c] = mem[c]]_vars

\* a copy and its source are both alive and differ after a mutation
C4_Witness ==
    \E c \in Addr :
        /\ origin[c] # NullPtr
        /\ mem[c] # NoObj /\ mem[origin[c]] # NoObj
        /\ mem[c].a # mem[origin[c]].a

\* C5: the pointer form returns what the reference form returns for the
\* dereferenced pointer: the same handle type and a copy of the same dynamic
\* type and state.
C5_PointerFormForwards ==
    (Returned /\ last.form = "ptr") =>
        \E r \in object_clone(ArgType(last.argT.cls, last.argT.const),
                              last.srcObj, last.src, {}) :
            /\ r.outcome = "returned"
            /\ last.stype = r.stype
            /\ last.copyObj = r.obj
            /\ \A i \in ResultHandles : hnd[i].stype = r.stype

\* a pointer to const Square was cloned
C5_Witness ==
    /\ Returned
    /\ last.form = "ptr"
    /\ last.argT = ArgType(Square, TRUE)
    /\ last.copyObj.type = Square

\* C6: cloning through a const reference or a pointer to const T returns
\* std::unique_ptr<T> with T not const, as for a mutable object.
C6_ConstArgumentGivesPlainHandle ==
    (Returned /\ last.argT.const) =>
        /\ last.stype.cls = last.argT.cls
        /\ ~last.stype.const
        /\ \A i \in ResultHandles : ~hnd[i].stype.const

\* both forms were called on a const-qualified Square
C6_Witness ==
    /\ Returned
    /\ last.argT.const
    /\ last.argT.cls = Square
    /\ last.form = "ref"
    /\ ResultHandles # {}

\* C7: cloning a temporary of type T returns std::unique_ptr<T> and a copy
\* equal to the one a named object of type T with the same state gives.
C7_TemporaryLikeNamed ==
    (Returned /\ last.cat = "prvalue") =>
        /\ last.stype = [cls |-> last.srcObj.type, const |-> FALSE]
        /\ last.copyObj.type = FinalOverrider(last.srcObj.type)
        /\ last.copyObj.a = last.srcObj.a
        /\ last.fresh
        /\ mem[last.copy] = last.copyObj

\* object::clone(Square{1}) returned
C7_Witness ==
    /\ Returned
    /\ last.cat = "prvalue"
    /\ last.srcObj = Square_ctor(Square, 1)
    /\ last.stype.cls = Square

Cloned == {p \in Addr : mem[p] # NoObj /\ mem[p].heap}
Owners(p) == {i \in Slots : hnd[i].ptr = p}

\* a call of object::clone that compiled was made in the step
Invoked(l) == l.form \in {"ref", "ptr"} /\ l.diag = "ok" /\ l.outcome # "none"

\* C8 (as claimed): every invocation of object::clone allocates exactly one
\* new instance and hands it to one owning handle, so that the instances
\* created are as many as the calls made, and every live instance is owned by
\* exactly one handle.
C8_OneInstancePerCall ==
    /\ [](\A p \in Cloned : Cardinality(Owners(p)) = 1)
    /\ [](\A i \in Slots : hnd[i].ptr # NullPtr => hnd[i].ptr \in Cloned)
    /\ [][Invoked(last') =>
            /\ Cardinality(Cloned') = Cardinality(Cloned) + 1
            /\ Cardinality({i \in Slots : hnd'[i].ptr # NullPtr})
                 = Cardinality({i \in Slots : hnd[i].ptr # NullPtr}) + 1]_vars

\* C8 (amended): every instance created by cloning and not yet deleted is
\* owned by exactly one handle, every non-empty handle owns such an instance,
\* every invocation that returns creates exactly one instance and one owning
\* handle, and an invocation that ends with std::bad_alloc creates no instance
\* and no handle and changes nothing.
C8_ExclusiveOwnership ==
    /\ [](\A p \in Cloned : Cardinality(Owners(p)) = 1)
    /\ [](\A i \in Slots : hnd[i].ptr # NullPtr => hnd[i].ptr \in Cloned)
    /\ [][last'.outcome = "returned" =>
            /\ Cardinality(Cloned') = Cardinality(Cloned) + 1
            /\ Cardinality({i \in Slots : hnd'[i].ptr # NullPtr})
                 = Cardinality({i \in Slots : hnd[i].ptr # NullPtr}) + 1]_vars
    /\ [][last'.outcome = "threw" =>
            mem' = mem /\ hnd' = hnd /\ origin' = origin /\ pc' = pc]_vars

\* a clone of a clone was made after the first had been moved to a handle of
\* a base type
C8_Witness ==
    /\ Returned
    /\ Cardinality(Cloned) = 2
    /\ \A p \in Cloned : Cardinality(Owners(p)) = 1
    /\ \E i \in Slots : hnd[i].ptr # NullPtr
                          /\ hnd[i].stype.cls # mem[hnd[i].ptr].type

\* C9 (as claimed): every call the compiler accepts completes and returns a
\* non-empty handle to a new copy, for every argument value.
C9_NoRuntimeErrorPath ==
    (last.outcome # "none" /\ last.diag = "ok") =>
        /\ Returned
        /\ last.copy # NullPtr

\* the copy clone() makes of the argument is of the class the dispatcher
\* narrows it to, or of a class derived from it
CastDefined(l) == Derives(FinalOverrider(l.srcObj.type), l.argT.cls)

\* C9 (amended): an accepted call whose argument is a live object, or a
\* non-null pointer to one, either returns a non-empty handle to a new copy or
\* ends with std::bad_alloc and no handle; it can stop the process only where
\* the narrowing cast is undefined, the argument's class having no clone() of
\* its own. The pointer form called with a null pointer dereferences it and
\* does not return.
C9_ReturnsUnlessNull ==
    Invoked(last) =>
        CASE last.srcObj = NoObj ->
               /\ last.form = "ptr"
               /\ last.outcome = "crashed"
          [] last.srcObj # NoObj /\ Returned ->
               /\ last.copy # NullPtr
               /\ last.fresh
               /\ mem[last.copy] = last.copyObj
               /\ \E i \in Slots : hnd[i].ptr # NullPtr /\ hnd[i].ptr = last.copy
          [] last.srcObj # NoObj /\ last.outcome = "threw" ->
               /\ last.copy = NullPtr
               /\ ResultHandles = {}
               /\ pc = "run"
          [] OTHER ->
               /\ last.outcome = "crashed"
               /\ ~CastDefined(last)
               /\ DeclaresClone(last.argT.cls) = None

\* the pointer form was called with a null Square*
C9_Witness ==
    /\ last.outcome = "crashed"
    /\ last.form = "ptr"
    /\ last.argT.cls = Square
    /\ pc = "crashed"

\* C10: a call on a type T whose base_type is neither T nor a base of T is
\* rejected by the static assertion: the step runs no clone() and allocates
\* nothing.
C10_BadMarkerRejected ==
    [][(last'.outcome # "none" /\ last'.form # "direct"
          /\ ~Derives(last'.argT.cls, base_type(last'.argT.cls))) =>
            /\ last'.outcome = "rejected"
            /\ last'.diag = "static_assert"
            /\ mem' = mem /\ hnd' = hnd /\ origin' = origin]_vars

\* clone was requested through a cloneable<Figure>&, whose base_type, Figure,
\* is derived from it
C10_Witness ==
    /\ last.outcome = "rejected"
    /\ last.argT.cls = cloneable
    /\ last.diag = "static_assert"
    /\ last.srcObj.type = Square

\* C11 (as claimed): a class that does not itself declare an override of
\* clone() has no objects, at any depth of the hierarchy, so object::clone is
\* never applied to an object whose own class lacks the override.
C11_NonOverriderNotInstantiable ==
    /\ \A p \in Live : DeclaresClone(mem[p].type) = "body"
    /\ Returned => DeclaresClone(last.srcObj.type) = "body"

\* C12: clone() can be called only in the dispatcher and in members of the
\* declaring class and of classes derived from it; a direct call written
\* outside the hierarchy does not compile, whatever class the object is named
\* through, so it allocates nothing, and every live instance made by clone()
\* is behind an owning handle, never only behind a raw pointer.
C12_CloneNotCallableOutside ==
    /\ [](\A ctx \in Contexts, N \in Classes :
            accessible(ctx, N) =>
               \/ ctx = Dispatcher /\ lookup_clone(N) = cloneable
               \/ ctx \in Classes /\ Derives(ctx, lookup_clone(N)))
    /\ [][last'.form = "direct" =>
            /\ last'.outcome = "rejected"
            /\ last'.diag = "protected"
            /\ mem' = mem /\ hnd' = hnd]_vars
    /\ [](\A p \in Cloned : Owners(p) # {})

\* p->clone() was written in a test body on a clone held in a
\* std::unique_ptr<Square>, and rejected
C12_Witness ==
    /\ last.form = "direct"
    /\ last.outcome = "rejected"
    /\ last.argT.cls = Square
    /\ last.srcObj.heap
    /\ \E i \in Slots : hnd[i].ptr = last.src /\ hnd[i].stype.cls = Square

\* C13 (as claimed): static_cast<T*>(ptr) in the dispatcher is a safe
\* downcast: the copy made for an argument of static type T has dynamic type T
\* or a class derived from T, so the element type of every owning handle is
\* the dynamic type of the object it owns or a base of it.
C13_NarrowingCastSafe ==
    /\ Returned => Derives(last.copyObj.type, last.argT.cls)
    /\ \A i \in Slots :
          hnd[i].ptr # NullPtr => Derives(mem[hnd[i].ptr].type, hnd[i].stype.cls)

\* what variant v makes of the call of object::clone just executed
EarlierOnLast(v) ==
    earlier_clone(v, last.argT, last.form = "ptr", last.cat, last.srcObj)

DispatcherCalled == last.outcome # "none" /\ last.form # "direct"

\* C14 (as claimed): every call an earlier variant accepts is accepted by the
\* final variant and returns a handle of the same static type on an equal
\* copy.
C14_EarlierVariantsSubsumed ==
    DispatcherCalled =>
        \A v \in Variants :
            EarlierOnLast(v).ok =>
                /\ last.diag = "ok"
                /\ Returned => /\ last.stype = EarlierOnLast(v).stype
                               /\ last.copyObj \in EarlierOnLast(v).objs

\* C14 (amended): every call an earlier variant accepts is accepted by the
\* final variant and returns an equal copy behind a handle of the same static
\* type, except that v2 called with a pointer to const T returns
\* std::unique_ptr<const T> where the final variant returns
\* std::unique_ptr<T>.
C14_EarlierVariantsAgreeUpToConst ==
    DispatcherCalled =>
        \A v \in Variants :
            EarlierOnLast(v).ok =>
                /\ last.diag = "ok"
                /\ Returned =>
                     /\ last.copyObj \in EarlierOnLast(v).objs
                     /\ IF v = "v2" /\ last.form = "ptr" /\ last.argT.const
                          THEN /\ EarlierOnLast(v).stype =
                                    [cls |-> last.stype.cls, const |-> TRUE]
                               /\ ~last.stype.const
                          ELSE last.stype = EarlierOnLast(v).stype

\* a const Figure* to a Square was cloned: v2 and the static helper accept the
\* call too, v3 does not; the static helper takes a const temporary and not a
\* plain one
C14_Witness ==
    /\ Returned
    /\ last.form = "ptr"
    /\ last.argT = ArgType(Figure, TRUE)
    /\ last.srcObj.type = Square
    /\ EarlierOnLast("v2").ok /\ EarlierOnLast("v2").stype.const
    /\ EarlierOnLast("Figure::clone").ok
    /\ ~EarlierOnLast("v3").ok
    /\ last.stype = unique_ptr(Figure)
    /\ Figure_clone(ArgType(Square, TRUE), FALSE, "prvalue", last.srcObj).ok
    /\ ~Figure_clone(ArgType(Square, FALSE), FALSE, "prvalue", last.srcObj).ok

====
